---------------------------- MODULE Spec2Model ----------------------------
(***************************************************************************)
(* Model of Examples/scripts/euler/earth.py: the class Object, its         *)
(* registry Object._instances, giveMotion and the step loop of             *)
(* vectorUpdate.  Drawing (placeObject, plt.plot) has no effect on the     *)
(* state and is left out.                                                  *)
(*                                                                         *)
(* Numbers.  The source computes in floats; the model computes in exact    *)
(* arithmetic on integers:                                                 *)
(*  - a position is a pair of integers, in grid units;                     *)
(*  - an angle in degrees is a record [q, s, c] standing for               *)
(*        90*q + degrees(asin(s / sqrt(s^2 + c^2)))                        *)
(*    with s >= 0, c > 0 and gcd(s, c) = 1, so the asin part lies in       *)
(*    [0, 90) and two records are equal exactly when the angles are equal  *)
(*    as numbers (0 and 360 are different numbers: q = 0 and q = 4);       *)
(*  - a speed v is held as its signed square sign(v) * v^2, which orders   *)
(*    and compares with 0 as v does; every speed of the model is the norm  *)
(*    of an integer vector along its heading, so v*sin(heading) and        *)
(*    v*cos(heading) are integers (Representable states this);             *)
(*  - units are chosen so that G and gridScale are 1;                      *)
(*  - the only quotient that leaves the integers is the gravity term       *)
(*    G*m*mj/(d*gridScale)^2 and its sin/cos components; it is rounded     *)
(*    toward zero, as a float result is rounded to a representable value   *)
(*    (a weak pull rounds to 0).  A force on a body of mass m is held as   *)
(*    m times an integer, so that netForce/mass is exact.                  *)
(***************************************************************************)
EXTENDS Integers, Sequences, FiniteSets, TLC

VARIABLES
    instances,   \* Object._instances: the registry, in construction order
    pc,          \* "idle" | "loop" (top of the for loop) | "plot" (line 140) | "raised"
    self,        \* index in instances of the body inside giveMotion/vectorUpdate, 0 if none
    t,           \* number of iterations of the for loop entered and finished
    data,        \* vectorUpdate's local list of positions
    collision,   \* vectorUpdate's local flag
    collided,    \* bodies whose advance printed "Collision!" (observer of the output)
    ncalls       \* number of giveMotion calls made so far

vars == <<instances, pc, self, t, data, collision, collided, ncalls>>

------------------------------------------------------------------------------
(* Bounds of the model *)

MaxBodies == 2
MaxTime == 3
MaxCalls == 2

\* construction inputs
Positions == {<<0, 0>>, <<3, 0>>, <<0, 3>>, <<3, 3>>}
Kinds == {[radius |-> 1, mass |-> 1], [radius |-> 2, mass |-> 4]}

\* impulse inputs: deltaV is an Impulses multiple of the norm of the direction's (s, c)
Impulses == {-1, 0, 1}
Octants == {<<0, 1>>, <<1, 1>>}

(* Program constants, in model units *)
G == 1
gridScale == 1

------------------------------------------------------------------------------
(* Arithmetic *)

Abs(x) == IF x < 0 THEN -x ELSE x

Sgn(x) == IF x < 0 THEN -1 ELSE IF x > 0 THEN 1 ELSE 0

RECURSIVE Gcd(_, _)
Gcd(a, b) == IF b = 0 THEN a ELSE Gcd(b, a % b)

\* floor of the square root
RECURSIVE IsqrtFrom(_, _)
IsqrtFrom(n, k) == IF (k + 1) * (k + 1) > n THEN k ELSE IsqrtFrom(n, k + 1)

Isqrt(n) == IsqrtFrom(n, 0)

\* signed square: how a speed is held
SSq(k, n2) == Sgn(k) * k * k * n2

------------------------------------------------------------------------------
(* Angles *)

\* the attribute motionDirection before the first giveMotion sets it
NoDirection == [q |-> -1, s |-> 0, c |-> 0]

Directions == {[q |-> qq, s |-> o[1], c |-> o[2]] : qq \in 0..3, o \in Octants}

\* math.degrees(math.asin(num / hyp)) + 90*off, where hyp^2 = num^2 + other^2,
\* num >= 0, other >= 0 and hyp > 0
AsinDegrees(num, other, off) ==
    IF other = 0
    THEN [q |-> off + 1, s |-> 0, c |-> 1]
    ELSE LET g == Gcd(num, other)
         IN [q |-> off, s |-> num \div g, c |-> other \div g]

Hyp2(h) == h.s * h.s + h.c * h.c

\* math.sin(math.radians(h)) * sqrt(Hyp2(h))
SinNum(h) ==
    CASE h.q % 4 = 0 -> h.s
      [] h.q % 4 = 1 -> h.c
      [] h.q % 4 = 2 -> -h.s
      [] h.q % 4 = 3 -> -h.c

\* math.cos(math.radians(h)) * sqrt(Hyp2(h))
CosNum(h) ==
    CASE h.q % 4 = 0 -> h.c
      [] h.q % 4 = 1 -> -h.s
      [] h.q % 4 = 2 -> -h.c
      [] h.q % 4 = 3 -> h.s

\* v / sqrt(Hyp2(h)) for a speed v held as the signed square v2
Along(v2, h) == Sgn(v2) * Isqrt(Abs(v2) \div Hyp2(h))

\* math.sin(math.radians(h)) * v
XComp(v2, h) == SinNum(h) * Along(v2, h)

\* math.cos(math.radians(h)) * v
YComp(v2, h) == CosNum(h) * Along(v2, h)

------------------------------------------------------------------------------
(* The registry and the bodies *)

\* Object.__init__: velocity starts at 0; motionDirection and time are not set yet
NewObject(position, kind) ==
    [position |-> position, radius |-> kind.radius, mass |-> kind.mass,
     velocity |-> 0, motionDirection |-> NoDirection, time |-> 0]

\* [y for y in Object._instances if y is not self], as indices
Others(insts, b) == {j \in 1..Len(insts) : j # b}

Dist2(p, r) == (p[1] - r[1]) * (p[1] - r[1]) + (p[2] - r[2]) * (p[2] - r[2])

------------------------------------------------------------------------------
(* giveMotion: composing an impulse with the current motion *)

\* the quadrant branches of giveMotion
MotionDirectionOf(x_comp, y_comp) ==
    IF x_comp > 0 /\ y_comp > 0 THEN AsinDegrees(Abs(x_comp), Abs(y_comp), 0)
    ELSE IF x_comp > 0 /\ y_comp < 0 THEN AsinDegrees(Abs(y_comp), Abs(x_comp), 1)
    ELSE IF x_comp < 0 /\ y_comp < 0 THEN AsinDegrees(Abs(x_comp), Abs(y_comp), 2)
    ELSE AsinDegrees(Abs(y_comp), Abs(x_comp), 3)

\* x_comp, y_comp of giveMotion's first branch
Composed(o, deltaV, motionDirection) ==
    <<XComp(o.velocity, o.motionDirection) + XComp(deltaV, motionDirection),
      YComp(o.velocity, o.motionDirection) + YComp(deltaV, motionDirection)>>

\* the body after the velocity/direction part of giveMotion; the composed
\* vector is not zero
Impulse(o, deltaV, motionDirection) ==
    IF o.velocity # 0
    THEN LET xy == Composed(o, deltaV, motionDirection)
         IN [o EXCEPT !.velocity = xy[1] * xy[1] + xy[2] * xy[2],
                      !.motionDirection = MotionDirectionOf(xy[1], xy[2])]
    ELSE [o EXCEPT !.velocity = deltaV,        \* self.velocity + deltaV, self.velocity being 0
                   !.motionDirection = motionDirection]

\* math.asin(abs(y_comp)/self.velocity) divides by zero when the composed vector
\* is zero; self.velocity has been assigned by then
ImpulseRaises(o, deltaV, motionDirection) ==
    /\ o.velocity # 0
    /\ Composed(o, deltaV, motionDirection) = <<0, 0>>

------------------------------------------------------------------------------
(* vectorUpdate: one iteration of the for loop *)

\* GravityDirection with the first branch's boundary made strict (x_pos < 0), the
\* way the branches of the net vector are written
GravityDirectionStrict(x_pos, y_pos) ==
    IF x_pos < 0 /\ y_pos > 0 THEN AsinDegrees(Abs(y_pos), Abs(x_pos), 1)
    ELSE IF x_pos > 0 /\ y_pos >= 0 THEN AsinDegrees(Abs(x_pos), Abs(y_pos), 2)
    ELSE IF x_pos >= 0 /\ y_pos < 0 THEN AsinDegrees(Abs(y_pos), Abs(x_pos), 3)
    ELSE AsinDegrees(Abs(x_pos), Abs(y_pos), 0)

\* the quadrant branches that turn the offset self - x into gravityDirection
GravityDirection(x_pos, y_pos) ==
    IF x_pos <= 0 /\ y_pos > 0 THEN AsinDegrees(Abs(y_pos), Abs(x_pos), 1)
    ELSE IF x_pos > 0 /\ y_pos >= 0 THEN AsinDegrees(Abs(x_pos), Abs(y_pos), 2)
    ELSE IF x_pos >= 0 /\ y_pos < 0 THEN AsinDegrees(Abs(y_pos), Abs(x_pos), 3)
    ELSE AsinDegrees(Abs(x_pos), Abs(y_pos), 0)

\* G*(self.mass * x.mass)/((distance*gridScale)**2), rounded toward zero to a
\* multiple of self.mass; d2 is distance squared, not 0
GravityForce(o, x, d2) ==
    o.mass * ((G * x.mass) \div (d2 * gridScale * gridScale))

\* force * num / sqrt(hyp2), rounded toward zero to a multiple of unit
Project(force, num, hyp2, unit) ==
    Sgn(num) * unit * Isqrt((force * force * num * num) \div (hyp2 * unit * unit))

\* <<x_gF, y_gF>> of the body x acting on o
GravityVector(o, x) ==
    LET x_pos == o.position[1] - x.position[1]
        y_pos == o.position[2] - x.position[2]
        gravityForce == GravityForce(o, x, x_pos * x_pos + y_pos * y_pos)
        gravityDirection == GravityDirection(x_pos, y_pos)
    IN <<Project(gravityForce, SinNum(gravityDirection), Hyp2(gravityDirection), o.mass),
         Project(gravityForce, CosNum(gravityDirection), Hyp2(gravityDirection), o.mass)>>

\* x_net, y_net after the bodies 1..j of the registry have been added
RECURSIVE GravitySum(_, _, _)
GravitySum(insts, b, j) ==
    IF j = 0 THEN <<0, 0>>
    ELSE LET acc == GravitySum(insts, b, j - 1)
         IN IF j = b THEN acc
            ELSE LET g == GravityVector(insts[b], insts[j])
                 IN <<acc[1] + g[1], acc[2] + g[2]>>

\* <<x_net, y_net>>: gravity of all other bodies plus the motion force
NetVector(insts, b) ==
    LET o == insts[b]
        grav == GravitySum(insts, b, Len(insts))
    IN <<grav[1] + o.mass * XComp(o.velocity, o.motionDirection),
         grav[2] + o.mass * YComp(o.velocity, o.motionDirection)>>

\* the quadrant branches that turn the net vector into the new motionDirection
NetDirection(x_net, y_net) ==
    IF x_net > 0 /\ y_net > 0 THEN AsinDegrees(Abs(x_net), Abs(y_net), 0)
    ELSE IF x_net > 0 /\ y_net < 0 THEN AsinDegrees(Abs(y_net), Abs(x_net), 1)
    ELSE IF x_net < 0 /\ y_net < 0 THEN AsinDegrees(Abs(x_net), Abs(y_net), 2)
    ELSE AsinDegrees(Abs(y_net), Abs(x_net), 3)

\* the division by (distance*gridScale)**2 raises ZeroDivisionError
ZeroDistance(insts, b) ==
    \E j \in Others(insts, b) : Dist2(insts[b].position, insts[j].position) = 0

\* the body after the update of motionDirection, velocity and position; net is
\* not zero
Moved(o, net) ==
    LET motionDirection == NetDirection(net[1], net[2])
        velocity == (net[1] * net[1] + net[2] * net[2]) \div (o.mass * o.mass)
        traveled == velocity \div (gridScale * gridScale)
    IN [o EXCEPT !.motionDirection = motionDirection,
                 !.velocity = velocity,
                 !.position = <<o.position[1] + XComp(traveled, motionDirection),
                                o.position[2] + YComp(traveled, motionDirection)>>]

\* Updated writing the first registered body's record instead of self's
UpdatedFirst(insts, b, net) == [insts EXCEPT ![1] = Moved(insts[b], net)]

\* the registry after self's update: only self's record is written
Updated(insts, b, net) == [insts EXCEPT ![b] = Moved(insts[b], net)]

\* Collides comparing with self's own radius instead of the other body's
CollidesOwnRadius(insts, b) ==
    \E j \in Others(insts, b) :
        Dist2(insts[b].position, insts[j].position) <= insts[b].radius * insts[b].radius

\* the collision check after the position update
Collides(insts, b) ==
    \E j \in Others(insts, b) :
        Dist2(insts[b].position, insts[j].position) <= insts[j].radius * insts[j].radius

------------------------------------------------------------------------------
(* Actions *)

Init ==
    /\ instances = <<>>
    /\ pc = "idle"
    /\ self = 0
    /\ t = 0
    /\ data = <<>>
    /\ collision = 0
    /\ collided = {}
    /\ ncalls = 0

\* Object(name, position, radius, mass)
Construct(position, kind) ==
    /\ pc = "idle"
    /\ Len(instances) < MaxBodies
    /\ instances' = Append(instances, NewObject(position, kind))
    /\ UNCHANGED <<pc, self, t, data, collision, collided, ncalls>>

\* Raise after self.velocity has been assigned, as giveMotion's own division by
\* zero happens
RaiseAfterAssignment ==
    /\ pc' = "raised"
    /\ instances' = [instances EXCEPT ![self].velocity = 0]
    /\ UNCHANGED <<t, data, collision, collided>>

\* an exception in the for loop leaves the program: nothing runs after it, and
\* nothing has been assigned before it
Raise ==
    /\ pc' = "raised"
    /\ UNCHANGED <<instances, t, data, collision, collided>>

\* giveMotion up to the call of vectorUpdate and the first line of vectorUpdate
giveMotion(b, deltaV, motionDirection, time) ==
    /\ pc = "idle"
    /\ ncalls < MaxCalls
    /\ ncalls' = ncalls + 1
    /\ self' = b
    /\ IF ImpulseRaises(instances[b], deltaV, motionDirection)
       THEN /\ instances' = [instances EXCEPT ![b].velocity = 0]
            /\ pc' = "raised"
            /\ UNCHANGED <<t, data, collision, collided>>
       ELSE /\ instances' = [instances EXCEPT
                   ![b] = [Impulse(instances[b], deltaV, motionDirection)
                              EXCEPT !.time = time]]
            /\ pc' = "loop"
            /\ t' = 0
            /\ data' = <<>>
            /\ collision' = 0
            /\ UNCHANGED collided

\* one iteration of for t in range(self.time)
Step ==
    /\ pc = "loop"
    /\ t < instances[self].time
    /\ UNCHANGED <<self, ncalls>>
    /\ IF ZeroDistance(instances, self) \/ NetVector(instances, self) = <<0, 0>>
       THEN Raise
       ELSE LET moved == Updated(instances, self, NetVector(instances, self))
                hit == Collides(moved, self)
            IN /\ instances' = moved
               /\ data' = Append(data, moved[self].position)
               /\ t' = t + 1
               /\ collision' = IF hit THEN 1 ELSE 0
               /\ collided' = IF hit THEN collided \cup {self} ELSE collided
               /\ pc' = IF hit THEN "plot" ELSE "loop"

\* range(self.time) is exhausted
LoopExit ==
    /\ pc = "loop"
    /\ t = instances[self].time
    /\ pc' = "plot"
    /\ UNCHANGED <<instances, self, t, data, collision, collided, ncalls>>

\* plt.plot(data) and the return of vectorUpdate and giveMotion
Plot ==
    /\ pc = "plot"
    /\ pc' = "idle"
    /\ self' = 0
    /\ t' = 0
    /\ data' = <<>>
    /\ collision' = 0
    /\ UNCHANGED <<instances, collided, ncalls>>

Next ==
    \/ \E position \in Positions, kind \in Kinds : Construct(position, kind)
    \/ \E b \in 1..Len(instances), k \in Impulses, motionDirection \in Directions,
          time \in 0..MaxTime :
            giveMotion(b, SSq(k, Hyp2(motionDirection)), motionDirection, time)
    \/ Step
    \/ LoopExit
    \/ Plot

Spec == Init /\ [][Next]_vars

\* the program of the script itself: the bodies are constructed, then giveMotion
\* is called once
ScriptNext ==
    \/ \E position \in Positions, kind \in Kinds :
          ncalls = 0 /\ Construct(position, kind)
    \/ \E b \in 1..Len(instances), k \in Impulses, motionDirection \in Directions,
          time \in 0..MaxTime :
            ncalls = 0 /\ giveMotion(b, SSq(k, Hyp2(motionDirection)), motionDirection, time)
    \/ Step
    \/ LoopExit
    \/ Plot

ScriptSpec == Init /\ [][ScriptNext]_vars

------------------------------------------------------------------------------
(* Well-formedness of the model's numbers *)

IsHeading(h) ==
    /\ h.q \in 0..4
    /\ h.s >= 0
    /\ h.c > 0
    /\ Gcd(h.s, h.c) = 1

\* every speed is an integer multiple of the norm of its heading's (s, c)
Representable ==
    \A b \in 1..Len(instances) :
        LET o == instances[b]
        IN /\ o.velocity # 0 => IsHeading(o.motionDirection)
           /\ o.motionDirection # NoDirection =>
                 /\ IsHeading(o.motionDirection)
                 /\ LET k == Along(o.velocity, o.motionDirection)
                    IN SSq(k, Hyp2(o.motionDirection)) = o.velocity

------------------------------------------------------------------------------
(* Properties *)

\* the body inside giveMotion/vectorUpdate before or after a transition
Advancing == IF self # 0 THEN self ELSE self'

\* some other registered body j has squaredDistance(p, j) <= radius(j)^2
HitAt(p, b) ==
    \E j \in 1..Len(instances) :
        /\ j # b
        /\ (p[1] - instances[j].position[1]) * (p[1] - instances[j].position[1])
           + (p[2] - instances[j].position[2]) * (p[2] - instances[j].position[2])
           <= instances[j].radius * instances[j].radius

\* some other registered body is at distance 0 of b
Coincides(b) ==
    \E j \in 1..Len(instances) :
        j # b /\ instances[j].position = instances[b].position

\* C1: an advance that ends without collision has run exactly N = time steps and
\* its output has N entries, and an advance fails only on a zero distance.
C1_StepsEqualDuration ==
    /\ (pc = "plot" /\ collision = 0) =>
          (t = instances[self].time /\ Len(data) = instances[self].time)
    /\ pc = "raised" => Coincides(self)

\* C2: the loop ends with a collision at exactly the first step whose new position
\* is within radius(j) of some other body j: no earlier output position is a hit,
\* the loop goes on only while the last position is no hit, the output has one
\* entry per step run, its last entry is the body's position, and a collision
\* leaves the loop.
C2_CollisionAtFirstHit ==
    pc \in {"loop", "plot"} =>
        /\ Len(data) = t
        /\ \A i \in 1..(Len(data) - 1) : ~HitAt(data[i], self)
        /\ Len(data) >= 1 => data[Len(data)] = instances[self].position
        /\ (pc = "loop" /\ Len(data) >= 1) => ~HitAt(data[Len(data)], self)
        /\ collision = 1 <=> (Len(data) >= 1 /\ HitAt(data[Len(data)], self))
        /\ collision = 1 => pc = "plot"

\* C2 witness: an advance of three steps asked passes its first step without a
\* collision and is ended by a collision after the second, the hit body having
\* the smaller radius
C2_Witness ==
    /\ pc = "plot"
    /\ collision = 1
    /\ Len(data) = 2
    /\ instances[self].time = 3
    /\ \E j \in 1..Len(instances) :
          /\ j # self
          /\ instances[j].radius < instances[self].radius
          /\ HitAt(instances[self].position, self)

\* C3: every step of a single body at rest leaves its position unchanged and flags
\* no collision and raises no error.
C3_IsolatedRestCompletes ==
    [][(pc = "loop" /\ Len(instances) = 1 /\ instances[self].velocity = 0
         /\ t < instances[self].time)
        => (pc' # "raised" /\ collision' = 0
            /\ instances'[self].position = instances[self].position)]_vars

\* C4: giveMotion with deltaV = 0 on a body with nonzero velocity leaves velocity
\* and heading as they were.  Stated for the velocities the data model allows
\* (v > 0), so that a violation does not rest on a negative velocity (C7).
C4_ZeroImpulseIdentity ==
    [][\A b \in 1..Len(instances), d \in Directions, time \in 0..MaxTime :
          (instances[b].velocity > 0 /\ giveMotion(b, 0, d, time))
          => /\ instances'[b].velocity = instances[b].velocity
             /\ instances'[b].motionDirection = instances[b].motionDirection]_vars

\* C5: once an advance of b has ended with a collision, no later transition runs a
\* step for b or changes b's position.
C5_HaltedAfterCollision ==
    [][\A b \in collided :
          /\ instances'[b].position = instances[b].position
          /\ ~(self = b /\ t' = t + 1)]_vars

\* C6: a step that starts with another body at distance 0 raises, and leaves the
\* registry (position, velocity and heading of every body) and the output as they
\* were.
C6_ZeroDistanceRaises ==
    [][(pc = "loop" /\ t < instances[self].time /\ Coincides(self))
        => (pc' = "raised" /\ instances' = instances /\ data' = data)]_vars

\* C6 witness: a step has raised with another body at the advancing body's position
C6_Witness ==
    /\ pc = "raised"
    /\ Coincides(self)
    /\ instances[self].time > 0

\* C7: the velocity of every body is never negative.
C7_VelocityNonNegative ==
    \A b \in 1..Len(instances) : instances[b].velocity >= 0

\* C8: for every nonzero offset between two registered bodies the conditions of the
\* first three branches exclude one another, the heading is the bearing from the
\* body toward the other one, and at the axis-aligned offsets it is 270 (+x),
\* 180 (+y), 90 (-x) and 360 (-y).
C8_GravityDirectionIsBearing ==
    \A b \in 1..Len(instances), j \in 1..Len(instances) :
        LET x_pos == instances[b].position[1] - instances[j].position[1]
            y_pos == instances[b].position[2] - instances[j].position[2]
            h == GravityDirection(x_pos, y_pos)
            g == Gcd(Abs(x_pos), Abs(y_pos))
            first == x_pos <= 0 /\ y_pos > 0
            second == x_pos > 0 /\ y_pos >= 0
            third == x_pos >= 0 /\ y_pos < 0
        IN (b # j /\ <<x_pos, y_pos>> # <<0, 0>>) =>
              /\ ~(first /\ second) /\ ~(first /\ third) /\ ~(second /\ third)
              /\ h.q \in 0..4 /\ h.s >= 0 /\ h.c > 0
              /\ SinNum(h) * g = -x_pos
              /\ CosNum(h) * g = -y_pos
              /\ (x_pos > 0 /\ y_pos = 0) => h = [q |-> 3, s |-> 0, c |-> 1]
              /\ (x_pos = 0 /\ y_pos > 0) => h = [q |-> 2, s |-> 0, c |-> 1]
              /\ (x_pos < 0 /\ y_pos = 0) => h = [q |-> 1, s |-> 0, c |-> 1]
              /\ (x_pos = 0 /\ y_pos < 0) => h = [q |-> 4, s |-> 0, c |-> 1]

\* C8 witness: a step has run for a body that is at a pure +x offset of another
\* body and has been pulled to heading 270
C8_Witness ==
    /\ pc = "loop"
    /\ Len(data) >= 1
    /\ instances[self].motionDirection = [q |-> 3, s |-> 0, c |-> 1]
    /\ \E j \in 1..Len(instances) :
          /\ j # self
          /\ instances[self].position[2] = instances[j].position[2]
          /\ instances[self].position[1] > instances[j].position[1]

\* C9: after a step the displacement has the sign of x_net on the x axis and the
\* sign of y_net on the y axis.  Stated for steps that start with velocity >= 0,
\* so that a violation does not rest on a negative velocity (C7).
C9_HeadingInNetQuadrant ==
    [][(pc = "loop" /\ Len(data') = Len(data) + 1 /\ instances[self].velocity >= 0)
        => LET net == NetVector(instances, self)
           IN /\ Sgn(instances'[self].position[1] - instances[self].position[1])
                 = Sgn(net[1])
              /\ Sgn(instances'[self].position[2] - instances[self].position[2])
                 = Sgn(net[2])]_vars

\* C10: a transition of an advance of b keeps the registry's length and every other
\* body's record, and b's own radius and mass.
C10_AdvanceFrame ==
    [][(self # 0 \/ self' # 0) =>
          /\ Len(instances') = Len(instances)
          /\ \A j \in 1..Len(instances) :
                j # Advancing => instances'[j] = instances[j]
          /\ instances'[Advancing].radius = instances[Advancing].radius
          /\ instances'[Advancing].mass = instances[Advancing].mass]_vars

\* C10 witness: a second body has been advanced into a collision with the first,
\* which is still registered
C10_Witness ==
    /\ pc = "idle"
    /\ Len(instances) >= 2
    /\ 2 \in collided
    /\ instances[2].velocity # 0

==============================================================================
